---- MODULE Spec2Model ----
(***************************************************************************)
(* SelectiveReact (selectivereact.py): a Red-DiscordBot cog that reacts to *)
(* messages containing configured trigger words.                           *)
(*                                                                         *)
(* One guild is modelled.  Every coroutine (the on_message listener, the   *)
(* addreact and delreact commands) is a task that advances one await at a  *)
(* time: an action performs the awaited call and the synchronous code that *)
(* follows it up to the next await, so tasks interleave exactly at the     *)
(* awaits of the source.  A reply sent with channel.send is the last thing *)
(* a command does and is recorded in the step that precedes it.            *)
(***************************************************************************)
EXTENDS Integers, Sequences, FiniteSets, TLC

\* Number of handler invocations (listener events and commands) in one run.
MaxTasks == 2

Tasks == 1..MaxTasks

\* Python's None as a config value, a reply or an exception that is absent
None == "None"

(***************************************************************************)
(* Text.  A text is a sequence of one-character strings.                   *)
(***************************************************************************)
ToLower ==
    ("P" :> "p") @@ ("I" :> "i") @@ ("Z" :> "z") @@ ("A" :> "a")

\* str.lower() on one character
LowerChar(c) == IF c \in DOMAIN ToLower THEN ToLower[c] ELSE c

\* str.lower()
Lower(s) == [i \in 1..Len(s) |-> LowerChar(s[i])]

\* characters matched by \w
WordChars ==
    {"a", "c", "e", "h", "i", "m", "p", "r", "s", "t", "x", "y", "z",
     "P", "I", "Z", "A"}

\* characters matched by \s
SpaceChars == {" "}

\* \b at offset i of text (between text[i] and text[i+1])
WordBoundary(text, i) ==
    LET before == i >= 1 /\ text[i] \in WordChars
        after  == i < Len(text) /\ text[i + 1] \in WordChars
    IN  before # after

\* re.escape(word) under re.IGNORECASE matched at offset i of text
LiteralAt(word, text, i) ==
    /\ i + Len(word) <= Len(text)
    /\ \A k \in 1..Len(word) : LowerChar(text[i + k]) = LowerChar(word[k])

\* get_pattern(word).search(text) is not None
get_pattern(word, text) ==
    \E i \in 0..Len(text) :
        /\ WordBoundary(text, i)
        /\ LiteralAt(word, text, i)
        /\ WordBoundary(text, i + Len(word))

\* text[i+1 ..] starts with the characters of prefix (case-sensitive)
StartsAt(prefix, text, i) ==
    /\ i + Len(prefix) <= Len(text)
    /\ \A k \in 1..Len(prefix) : text[i + k] = prefix[k]

\* URL_REGEX.search(text) is not None, URL_REGEX = https?://\S+
URL_REGEX(text) ==
    \E i \in 0..Len(text) :
        \E scheme \in {<<"h", "t", "t", "p", ":", "/", "/">>,
                       <<"h", "t", "t", "p", "s", ":", "/", "/">>} :
            /\ StartsAt(scheme, text, i)
            /\ i + Len(scheme) < Len(text)
            /\ text[i + Len(scheme) + 1] \notin SpaceChars

(***************************************************************************)
(* Emoji tokens.  A token is what a user types or what the registry stores *)
(* as a key: a literal string, a custom reference <:name:id> or <a:name:id>,*)
(* or a string that starts like a custom reference and has no id part.     *)
(***************************************************************************)
Unicode(s) == [kind |-> "unicode", name |-> s, id |-> 0]
Custom(n, i) == [kind |-> "custom", name |-> n, id |-> i]
Malformed(s) == [kind |-> "malformed", name |-> s, id |-> 0]
EmojiObj(n, i) == [kind |-> "Emoji", name |-> n, id |-> i]

\* emoji.split(":")[2] raises IndexError
IndexError == [kind |-> "IndexError", name |-> "IndexError", id |-> 0]

\* the None that fix_custom_emoji returns for a custom token it cannot find
NoEmoji == [kind |-> "None", name |-> "None", id |-> 0]

\* ids of the custom emojis of the guilds the bot is in, with their names
EmojiIds == {1, 2}
EmojiName == (1 :> "pz") @@ (2 :> "pa")

\* literal strings Discord accepts as a reaction
ValidUnicode == {"U1F355"}

\* fix_custom_emoji(emoji) with the emojis in `visible` known to the bot; the
\* id is parsed once for every emoji the loops visit
fix_custom_emoji(emoji, visible) ==
    IF emoji.kind \notin {"custom", "malformed"} THEN emoji
    ELSE IF visible = {} THEN NoEmoji
    ELSE IF emoji.kind = "malformed" THEN IndexError
    ELSE IF emoji.id \in visible THEN EmojiObj(EmojiName[emoji.id], emoji.id)
    ELSE NoEmoji

\* str(emoji): a str is itself, a discord.Emoji renders as <:name:id>
Str(emoji) ==
    IF emoji.kind = "Emoji" THEN Custom(emoji.name, emoji.id)
    ELSE emoji

\* outcomes of message.add_reaction(emoji)
add_reaction(emoji) ==
    IF emoji = NoEmoji THEN {"TypeError"}
    ELSE IF emoji.kind = "unicode" /\ emoji.name \notin ValidUnicode
         THEN {"HTTPException"}
    ELSE {"ok", "Forbidden", "HTTPException"}

(***************************************************************************)
(* The registry: the value of the guild's "reactions" key, a dict from     *)
(* emoji token to a list of words.  A dict keeps insertion order, so it is *)
(* a sequence of entries with distinct keys.                               *)
(***************************************************************************)
Entry(e, ws) == [emoji |-> e, words |-> ws]

\* emoji in reactions
HasKey(reacts, emoji) == \E i \in 1..Len(reacts) : reacts[i].emoji = emoji

\* the position of a key of the dict
KeyIndex(reacts, emoji) == CHOOSE i \in 1..Len(reacts) : reacts[i].emoji = emoji

\* reactions[emoji]
WordsOf(reacts, emoji) == reacts[KeyIndex(reacts, emoji)].words

\* word in words
InList(word, words) == \E j \in 1..Len(words) : words[j] = word

\* reactions.setdefault(emoji, [])
setdefault(reacts, emoji) ==
    IF HasKey(reacts, emoji) THEN reacts ELSE Append(reacts, Entry(emoji, <<>>))

\* reactions[emoji].append(word)
append(reacts, emoji, word) ==
    [reacts EXCEPT ![KeyIndex(reacts, emoji)].words = Append(@, word)]

\* ListRemove that drops the last element of the list
ListRemoveLast(words, word) == SubSeq(words, 1, Len(words) - 1)

\* words.remove(word): drops the first occurrence
ListRemove(words, word) ==
    LET j == CHOOSE k \in 1..Len(words) :
                 words[k] = word /\ \A l \in 1..(k - 1) : words[l] # word
    IN  SubSeq(words, 1, j - 1) \o SubSeq(words, j + 1, Len(words))

\* reactions[emoji].remove(word)
remove(reacts, emoji, word) ==
    [reacts EXCEPT ![KeyIndex(reacts, emoji)].words = ListRemove(@, word)]

\* del reactions[emoji]
del(reacts, emoji) ==
    LET i == KeyIndex(reacts, emoji)
    IN  SubSeq(reacts, 1, i - 1) \o SubSeq(reacts, i + 1, Len(reacts))

\* listreact: the "- emoji: word" lines, in the order they are written
RECURSIVE listreact(_)
listreact(emojis) ==
    IF emojis = <<>> THEN <<>>
    ELSE [j \in 1..Len(emojis[1].words) |-> <<emojis[1].emoji, emojis[1].words[j]>>]
         \o listreact(Tail(emojis))

\* on_message, the inner loop: does a word of the list match, scanning from j
RECURSIVE ScanWords(_, _, _)
ScanWords(words, content, j) ==
    IF j > Len(words) THEN FALSE
    ELSE IF get_pattern(words[j], content) THEN TRUE
    ELSE ScanWords(words, content, j + 1)

\* ScanEmojis keeping the last match instead of returning at the first
RECURSIVE ScanEmojisLast(_, _, _)
ScanEmojisLast(reacts, content, i) ==
    IF i > Len(reacts) THEN 0
    ELSE LET later == ScanEmojisLast(reacts, content, i + 1)
         IN  IF later # 0 THEN later
             ELSE IF ScanWords(reacts[i].words, content, 1) THEN i
             ELSE 0

\* on_message, the outer loop: the position of the first emoji, from i on,
\* one of whose words matches; 0 when the loops end without a match
RECURSIVE ScanEmojis(_, _, _)
ScanEmojis(reacts, content, i) ==
    IF i > Len(reacts) THEN 0
    ELSE IF ScanWords(reacts[i].words, content, 1) THEN i
    ELSE ScanEmojis(reacts, content, i + 1)

\* clean_dead_emojis, first loop: the keys fix_custom_emoji is falsy for
RECURSIVE to_delete(_, _)
to_delete(reacts, visible) ==
    IF reacts = <<>> THEN <<>>
    ELSE (IF fix_custom_emoji(reacts[1].emoji, visible) = NoEmoji
          THEN <<reacts[1].emoji>> ELSE <<>>)
         \o to_delete(Tail(reacts), visible)

\* clean_dead_emojis, second loop: del reacts[emoji] for each collected key
RECURSIVE DeleteAll(_, _)
DeleteAll(reacts, keys) ==
    IF keys = <<>> THEN reacts
    ELSE DeleteAll(del(reacts, keys[1]), Tail(keys))

\* Sweep that purges only the first dead key it meets
SweepFirst(reacts, visible) ==
    DeleteAll(reacts, SubSeq(to_delete(reacts, visible), 1, 1))

\* clean_dead_emojis between its load and its save
Sweep(reacts, visible) == DeleteAll(reacts, to_delete(reacts, visible))

(***************************************************************************)
(* Inputs.                                                                 *)
(***************************************************************************)
pizza == <<"p", "i", "z", "z", "a">>
party == <<"p", "a", "r", "t", "y">>

\* the words a moderator types
Words == {<<"P", "i", "z", "z", "a">>, party}

\* the emoji arguments a moderator types: a unicode emoji, a string that is
\* no emoji, custom emojis by their name and under a stale name, and a
\* string that only starts like a custom emoji
EmojiArgs ==
    {Unicode("U1F355"), Unicode("pizza"),
     Custom("pz", 1), Custom("old", 1), Custom("pa", 2), Malformed("<abc>")}

\* message contents
Texts ==
    {<<"p", "i", "z", "z", "a", " ", "p", "a", "r", "t", "y">>,
     <<"P", "I", "Z", "Z", "A", "!">>,
     <<"p", "i", "z", "z", "a", "z", "z">>,
     <<"h", "t", "t", "p", ":", "/", "/", "x", " ", "p", "i", "z", "z", "a">>}

\* the roles of the guild
Roles == {"R1"}

\* the role lists of the authors
AuthorRoles == {{}, {"R1"}}

\* registries left in the guild's config by earlier runs of the bot
StoredRegistries ==
    {<<>>,
     <<Entry(Custom("pz", 1), <<pizza>>),
       Entry(Unicode("U1F355"), <<pizza, party>>),
       Entry(Custom("pa", 2), <<party>>)>>}

(***************************************************************************)
(* State.                                                                  *)
(***************************************************************************)
VARIABLES
    reactions,    \* conf.guild(guild).reactions
    react_role,   \* conf.guild(guild).react_role
    guildEmojis,  \* ids of the emojis of bot.guilds
    guildRoles,   \* the roles that exist in the guild
    tasks         \* the coroutines: position and local variables

vars == <<reactions, react_role, guildEmojis, guildRoles, tasks>>

\* a coroutine that has not been started
Idle ==
    [kind |-> "idle", pc |-> "idle",
     word |-> <<>>, arg |-> NoEmoji, emoji |-> NoEmoji,
     content |-> <<>>, roles |-> {},
     react_role_id |-> None, reacts |-> <<>>,
     caller_reacts |-> <<>>,  \* on_message's reacts while clean_dead_emojis runs
     result |-> None,   \* the return or except branch the coroutine ended in
     calls |-> 0,       \* message.add_reaction calls made
     added |-> <<>>,    \* the emojis of the calls that succeeded
     resolved |-> 0,    \* fix_custom_emoji calls made
     loads |-> 0,       \* reads of the reactions key
     saves |-> 0,       \* writes of the reactions key
     sent |-> None,     \* the reply sent to the channel
     caught |-> None,   \* the exception an except clause caught
     raised |-> None]   \* the exception that left the coroutine

\* default_guild_settings, or what an earlier run has stored
Init ==
    /\ reactions \in StoredRegistries
    /\ react_role = None
    /\ guildEmojis = EmojiIds
    /\ guildRoles = Roles
    /\ tasks = [t \in Tasks |-> Idle]

\* coroutines are started in the order of their numbers
CanStart(t) ==
    /\ tasks[t].kind = "idle"
    /\ \A u \in Tasks : u < t => tasks[u].kind # "idle"

At(t, kind, pc) == tasks[t].kind = kind /\ tasks[t].pc = pc

\* the coroutine returns (or raises): its local variables are gone; the
\* message it handled and what it did stay on record
Finish(task, result) ==
    [task EXCEPT !.pc = "done", !.result = result,
                 !.word = Idle.word, !.arg = Idle.arg, !.emoji = Idle.emoji,
                 !.roles = Idle.roles,
                 !.react_role_id = Idle.react_role_id,
                 !.reacts = Idle.reacts,
                 !.caller_reacts = Idle.caller_reacts]

\* a stored key is never the empty string, so "not emoji_obj" is "is None".
\* A stored key is a string add_reaction accepted or the str() of an Emoji,
\* so fix_custom_emoji does not raise on it.
Falsy(emoji_obj) == emoji_obj = NoEmoji

(***************************************************************************)
(* on_message                                                              *)
(***************************************************************************)
\* the event arrives: the checks made before the first await
on_message(t, guild, bot, content, roles) ==
    /\ CanStart(t)
    /\ LET m == [Idle EXCEPT !.kind = "on_message", !.content = content,
                             !.roles = roles]
       IN  tasks' = [tasks EXCEPT ![t] =
               IF ~guild THEN Finish(m, "no_guild")
               ELSE IF bot THEN Finish(m, "bot")
               ELSE [m EXCEPT !.pc = "cog_disabled_in_guild"]]
    /\ UNCHANGED <<reactions, react_role, guildEmojis, guildRoles>>

\* CogDisabledInGuild without the URL filter
CogDisabledOnly(t) ==
    /\ At(t, "on_message", "cog_disabled_in_guild")
    /\ \E disabled \in BOOLEAN :
          tasks' = [tasks EXCEPT ![t] =
              IF disabled THEN Finish(@, "disabled")
              ELSE [@ EXCEPT !.pc = "react_role"]]
    /\ UNCHANGED <<reactions, react_role, guildEmojis, guildRoles>>

\* await bot.cog_disabled_in_guild, then the URL filter
CogDisabledInGuild(t) ==
    /\ At(t, "on_message", "cog_disabled_in_guild")
    /\ \E disabled \in BOOLEAN :
          tasks' = [tasks EXCEPT ![t] =
              IF disabled THEN Finish(@, "disabled")
              ELSE IF URL_REGEX(@.content) THEN Finish(@, "url")
              ELSE [@ EXCEPT !.pc = "react_role"]]
    /\ UNCHANGED <<reactions, react_role, guildEmojis, guildRoles>>

\* HasRole satisfied by any role the author holds
HasAnyRole(roles, existing, react_role_id) == TRUE

\* any(role.id == react_role_id for role in message.author.roles); the roles
\* of a member are those of its role ids that still exist
HasRole(roles, existing, react_role_id) ==
    \E role \in roles \cap existing : role = react_role_id

\* await conf.guild(guild).react_role(), then the role gate
GetReactRole(t) ==
    /\ At(t, "on_message", "react_role")
    /\ LET m == [tasks[t] EXCEPT !.react_role_id = react_role,
                                 !.roles = @ \cap guildRoles]
       IN  tasks' = [tasks EXCEPT ![t] =
               IF /\ react_role # None
                  /\ ~HasRole(tasks[t].roles, guildRoles, react_role)
               THEN Finish(m, "gated")
               ELSE [m EXCEPT !.pc = "reactions"]]
    /\ UNCHANGED <<reactions, react_role, guildEmojis, guildRoles>>

\* Dispatch with the emoji of an entry resolved before its words are tried
DispatchResolveFirst(m, visible) ==
    LET i == ScanEmojis(m.reacts, m.content, 1)
    IN  IF m.reacts = <<>> THEN Finish(m, "empty")
        ELSE IF i = 0
        THEN Finish([m EXCEPT !.resolved = @ + Len(m.reacts)], "no_match")
        ELSE LET emoji == m.reacts[i].emoji
                 emoji_obj == fix_custom_emoji(emoji, visible)
                 r == [m EXCEPT !.emoji = emoji, !.resolved = @ + i]
             IN  IF Falsy(emoji_obj)
                 THEN [r EXCEPT !.pc = "clean_dead_emojis"]
                 ELSE [r EXCEPT !.pc = "add_reaction", !.emoji = emoji_obj]

\* the first entry at or after i that matches the text and whose emoji
\* resolves, 0 when there is none
RECURSIVE ScanLive(_, _, _, _)
ScanLive(reacts, content, visible, i) ==
    IF i > Len(reacts) THEN 0
    ELSE IF /\ ScanWords(reacts[i].words, content, 1)
            /\ ~Falsy(fix_custom_emoji(reacts[i].emoji, visible))
         THEN i
         ELSE ScanLive(reacts, content, visible, i + 1)

\* Dispatch going on to the next matching entry when an emoji is dead
DispatchFallback(m, visible) ==
    LET i == ScanEmojis(m.reacts, m.content, 1)
        k == ScanLive(m.reacts, m.content, visible, 1)
    IN  IF m.reacts = <<>> THEN Finish(m, "empty")
        ELSE IF i = 0 THEN Finish(m, "no_match")
        ELSE IF k = 0
        THEN [m EXCEPT !.emoji = m.reacts[i].emoji, !.resolved = @ + 1,
                       !.pc = "clean_dead_emojis"]
        ELSE [m EXCEPT !.emoji = fix_custom_emoji(m.reacts[k].emoji, visible),
                       !.resolved = @ + 1, !.pc = "add_reaction"]

\* the two loops of on_message and what is done with the first match:
\* the task after reacts has been loaded
Dispatch(m, visible) ==
    LET i == ScanEmojis(m.reacts, m.content, 1)
    IN  IF m.reacts = <<>> THEN Finish(m, "empty")
        ELSE IF i = 0 THEN Finish(m, "no_match")
        ELSE LET emoji == m.reacts[i].emoji
                 emoji_obj == fix_custom_emoji(emoji, visible)
                 r == [m EXCEPT !.emoji = emoji, !.resolved = @ + 1]
             IN  IF Falsy(emoji_obj)
                 THEN [r EXCEPT !.pc = "clean_dead_emojis"]
                 ELSE [r EXCEPT !.pc = "add_reaction", !.emoji = emoji_obj]

\* await conf.guild(guild).reactions(), then match and resolve
GetReactions(t) ==
    /\ At(t, "on_message", "reactions")
    /\ tasks' = [tasks EXCEPT ![t] =
           Dispatch([@ EXCEPT !.reacts = reactions, !.loads = @ + 1],
                    guildEmojis)]
    /\ UNCHANGED <<reactions, react_role, guildEmojis, guildRoles>>

\* Reacted without the return that follows add_reaction: the loops go on
ReactedNoReturn(m, outcome) ==
    LET c == [m EXCEPT !.calls = @ + 1]
    IN  IF outcome = "ok"
        THEN [c EXCEPT !.added = Append(@, m.emoji)]
        ELSE IF outcome = "Forbidden"
        THEN Finish([c EXCEPT !.caught = outcome], "forbidden")
        ELSE Finish([c EXCEPT !.raised = outcome], "raised")

\* Reacted with the call tried again when it is Forbidden
ReactedRetry(m, outcome) ==
    LET c == [m EXCEPT !.calls = @ + 1]
    IN  IF outcome = "ok"
        THEN Finish([c EXCEPT !.added = Append(@, m.emoji)], "reacted")
        ELSE IF outcome = "Forbidden"
        THEN [c EXCEPT !.caught = outcome, !.result = "forbidden"]
        ELSE Finish([c EXCEPT !.raised = outcome], "raised")

\* what on_message does with the outcome of message.add_reaction(emoji_obj)
Reacted(m, outcome) ==
    LET c == [m EXCEPT !.calls = @ + 1]
    IN  IF outcome = "ok"
        THEN Finish([c EXCEPT !.added = Append(@, m.emoji)], "reacted")
        ELSE IF outcome = "Forbidden"
        THEN Finish([c EXCEPT !.caught = outcome], "forbidden")
        ELSE Finish([c EXCEPT !.raised = outcome], "raised")

\* AddReaction dropping the custom entries when the call fails
AddReactionPurge(t) ==
    /\ At(t, "on_message", "add_reaction")
    /\ \E outcome \in add_reaction(tasks[t].emoji) :
          /\ tasks' = [tasks EXCEPT ![t] = Reacted(@, outcome)]
          /\ reactions' = IF outcome = "ok" THEN reactions
                          ELSE Sweep(reactions, {})
    /\ UNCHANGED <<react_role, guildEmojis, guildRoles>>

\* await message.add_reaction(emoji_obj)
AddReaction(t) ==
    /\ At(t, "on_message", "add_reaction")
    /\ \E outcome \in add_reaction(tasks[t].emoji) :
          tasks' = [tasks EXCEPT ![t] = Reacted(@, outcome)]
    /\ UNCHANGED <<reactions, react_role, guildEmojis, guildRoles>>

\* CleanLoad sweeping the map on_message loaded for the match
CleanFromSnapshot(t) ==
    /\ At(t, "on_message", "clean_dead_emojis")
    /\ tasks' = [tasks EXCEPT ![t] =
           [@ EXCEPT !.pc = "clean_save",
                     !.caller_reacts = tasks[t].reacts,
                     !.reacts = Sweep(tasks[t].reacts, guildEmojis),
                     !.loads = @ + 1,
                     !.resolved = @ + Len(tasks[t].reacts)]]
    /\ UNCHANGED <<reactions, react_role, guildEmojis, guildRoles>>

\* clean_dead_emojis: await conf.guild(guild).reactions(), then the two loops.
\* reacts is now the local of clean_dead_emojis; the map on_message loaded
\* stays in the caller's frame
CleanLoad(t) ==
    /\ At(t, "on_message", "clean_dead_emojis")
    /\ tasks' = [tasks EXCEPT ![t] =
           [@ EXCEPT !.pc = "clean_save",
                     !.caller_reacts = tasks[t].reacts,
                     !.reacts = Sweep(reactions, guildEmojis),
                     !.loads = @ + 1,
                     !.resolved = @ + Len(reactions)]]
    /\ UNCHANGED <<reactions, react_role, guildEmojis, guildRoles>>

\* clean_dead_emojis: await conf.guild(guild).reactions.set(reacts); return
CleanSave(t) ==
    /\ At(t, "on_message", "clean_save")
    /\ reactions' = tasks[t].reacts
    /\ tasks' = [tasks EXCEPT ![t] =
           Finish([@ EXCEPT !.saves = @ + 1], "cleaned")]
    /\ UNCHANGED <<react_role, guildEmojis, guildRoles>>

(***************************************************************************)
(* addreact / create_reaction                                              *)
(***************************************************************************)
Unrecognized == "That's not an emoji I recognize."
AlreadyExists == "This automatic reaction already exists."
Added == "Successfully added this automatic reaction."
DoesNotExist == "That automatic reaction does not exist."
Removed == "Removed this automatic reaction."

\* Probed with the exception swallowed and the command carried on
ProbedCarryOn(c, outcome) ==
    LET p == [c EXCEPT !.calls = @ + 1]
    IN  IF outcome = "ok"
        THEN [p EXCEPT !.added = Append(@, c.emoji), !.emoji = Str(c.emoji),
                       !.pc = "reactions"]
        ELSE [p EXCEPT !.caught = outcome, !.emoji = Str(c.emoji),
                       !.pc = "reactions"]

\* create_reaction and remove_reaction: the outcome of the add_reaction on the
\* command message; every exception it raises is one the except clause catches
Probed(c, outcome) ==
    LET p == [c EXCEPT !.calls = @ + 1]
    IN  IF outcome = "ok"
        THEN [p EXCEPT !.added = Append(@, c.emoji), !.emoji = Str(c.emoji),
                       !.pc = "reactions"]
        ELSE Finish([p EXCEPT !.caught = outcome, !.sent = Unrecognized],
                    "unrecognized")

\* addreact and delreact: the command after emoji = fix_custom_emoji(emoji);
\* an IndexError leaves the command
Invoked(c, emoji) ==
    IF emoji = IndexError
    THEN Finish([c EXCEPT !.raised = "IndexError"], "raised")
    ELSE [c EXCEPT !.pc = "add_reaction", !.emoji = emoji]

\* the command is invoked: emoji = self.fix_custom_emoji(emoji)
addreact(t, word, emoji) ==
    /\ CanStart(t)
    /\ tasks' = [tasks EXCEPT ![t] =
           Invoked([Idle EXCEPT !.kind = "addreact", !.word = word,
                                !.arg = emoji, !.resolved = 1],
                   fix_custom_emoji(emoji, guildEmojis))]
    /\ UNCHANGED <<reactions, react_role, guildEmojis, guildRoles>>

\* create_reaction: await message.add_reaction(emoji)
CreateProbe(t) ==
    /\ At(t, "addreact", "add_reaction")
    /\ \E outcome \in add_reaction(tasks[t].emoji) :
          tasks' = [tasks EXCEPT ![t] = Probed(@, outcome)]
    /\ UNCHANGED <<reactions, react_role, guildEmojis, guildRoles>>

\* Create without the membership test
CreateNoCheck(c) ==
    LET reacts == setdefault(c.reacts, c.emoji)
    IN  [c EXCEPT !.reacts = append(reacts, c.emoji, Lower(c.word)),
                  !.pc = "save"]

\* Create with the word tested and stored as it was typed
CreateAsTyped(c) ==
    LET reacts == setdefault(c.reacts, c.emoji)
        r == [c EXCEPT !.reacts = reacts]
    IN  IF InList(c.word, WordsOf(reacts, c.emoji))
        THEN Finish([r EXCEPT !.sent = AlreadyExists], "exists")
        ELSE [r EXCEPT !.reacts = append(reacts, c.emoji, c.word),
                       !.pc = "save"]

\* create_reaction between its load and its save: the task after reactions
\* has been loaded
Create(c) ==
    LET reacts == setdefault(c.reacts, c.emoji)
        r == [c EXCEPT !.reacts = reacts]
    IN  IF InList(Lower(c.word), WordsOf(reacts, c.emoji))
        THEN Finish([r EXCEPT !.sent = AlreadyExists], "exists")
        ELSE [r EXCEPT !.reacts = append(reacts, c.emoji, Lower(c.word)),
                       !.pc = "save"]

\* create_reaction: await conf.guild(guild).reactions()
CreateLoad(t) ==
    /\ At(t, "addreact", "reactions")
    /\ tasks' = [tasks EXCEPT ![t] =
           Create([@ EXCEPT !.reacts = reactions, !.loads = @ + 1])]
    /\ UNCHANGED <<reactions, react_role, guildEmojis, guildRoles>>

\* CreateSave adding the pair to the map as it is stored now
CreateSaveMerged(t) ==
    /\ At(t, "addreact", "save")
    /\ reactions' = append(setdefault(reactions, tasks[t].emoji),
                           tasks[t].emoji, Lower(tasks[t].word))
    /\ tasks' = [tasks EXCEPT ![t] =
           Finish([@ EXCEPT !.saves = @ + 1, !.sent = Added], "added")]
    /\ UNCHANGED <<react_role, guildEmojis, guildRoles>>

\* CreateSave writing the whole guild record, react_role as the defaults
\* have it
CreateSaveWholeConfig(t) ==
    /\ At(t, "addreact", "save")
    /\ reactions' = tasks[t].reacts
    /\ react_role' = tasks[t].react_role_id
    /\ tasks' = [tasks EXCEPT ![t] =
           Finish([@ EXCEPT !.saves = @ + 1, !.sent = Added], "added")]
    /\ UNCHANGED <<guildEmojis, guildRoles>>

\* create_reaction: await conf.guild(guild).reactions.set(reactions), reply
CreateSave(t) ==
    /\ At(t, "addreact", "save")
    /\ reactions' = tasks[t].reacts
    /\ tasks' = [tasks EXCEPT ![t] =
           Finish([@ EXCEPT !.saves = @ + 1, !.sent = Added], "added")]
    /\ UNCHANGED <<react_role, guildEmojis, guildRoles>>

(***************************************************************************)
(* delreact / remove_reaction                                              *)
(***************************************************************************)
\* the command is invoked: emoji = self.fix_custom_emoji(emoji)
delreact(t, word, emoji) ==
    /\ CanStart(t)
    /\ tasks' = [tasks EXCEPT ![t] =
           Invoked([Idle EXCEPT !.kind = "delreact", !.word = word,
                                !.arg = emoji, !.resolved = 1],
                   fix_custom_emoji(emoji, guildEmojis))]
    /\ UNCHANGED <<reactions, react_role, guildEmojis, guildRoles>>

\* remove_reaction: await message.add_reaction(emoji)
RemoveProbe(t) ==
    /\ At(t, "delreact", "add_reaction")
    /\ \E outcome \in add_reaction(tasks[t].emoji) :
          tasks' = [tasks EXCEPT ![t] = Probed(@, outcome)]
    /\ UNCHANGED <<reactions, react_role, guildEmojis, guildRoles>>

\* Remove that leaves the key of an emptied list in place
RemoveKeepKey(c) ==
    IF \/ ~HasKey(c.reacts, c.emoji)
       \/ ~InList(Lower(c.word), WordsOf(c.reacts, c.emoji))
    THEN Finish([c EXCEPT !.sent = DoesNotExist], "missing")
    ELSE [c EXCEPT !.pc = "save",
                   !.reacts = remove(c.reacts, c.emoji, Lower(c.word))]

\* remove_reaction between its load and its save
Remove(c) ==
    IF \/ ~HasKey(c.reacts, c.emoji)
       \/ ~InList(Lower(c.word), WordsOf(c.reacts, c.emoji))
    THEN Finish([c EXCEPT !.sent = DoesNotExist], "missing")
    ELSE LET removed == remove(c.reacts, c.emoji, Lower(c.word))
         IN  [c EXCEPT !.pc = "save",
                       !.reacts = IF WordsOf(removed, c.emoji) = <<>>
                                  THEN del(removed, c.emoji)
                                  ELSE removed]

\* remove_reaction: await conf.guild(guild).reactions()
RemoveLoad(t) ==
    /\ At(t, "delreact", "reactions")
    /\ tasks' = [tasks EXCEPT ![t] =
           Remove([@ EXCEPT !.reacts = reactions, !.loads = @ + 1])]
    /\ UNCHANGED <<reactions, react_role, guildEmojis, guildRoles>>

\* remove_reaction: await conf.guild(guild).reactions.set(reactions), reply
RemoveSave(t) ==
    /\ At(t, "delreact", "save")
    /\ reactions' = tasks[t].reacts
    /\ tasks' = [tasks EXCEPT ![t] =
           Finish([@ EXCEPT !.saves = @ + 1, !.sent = Removed], "removed")]
    /\ UNCHANGED <<react_role, guildEmojis, guildRoles>>

(***************************************************************************)
(* setreactrole / clearreactrole: one write of the react_role key          *)
(***************************************************************************)
setreactrole(role) ==
    /\ role \in guildRoles
    /\ react_role' = role
    /\ UNCHANGED <<reactions, guildEmojis, guildRoles, tasks>>

clearreactrole ==
    /\ react_role' = None
    /\ UNCHANGED <<reactions, guildEmojis, guildRoles, tasks>>

(***************************************************************************)
(* The guild changes under the bot.                                        *)
(***************************************************************************)
\* a custom emoji is deleted, or the bot leaves the guild that owns it
EmojiDeleted(id) ==
    /\ id \in guildEmojis
    /\ guildEmojis' = guildEmojis \ {id}
    /\ UNCHANGED <<reactions, react_role, guildRoles, tasks>>

\* a role of the guild is deleted
RoleDeleted(role) ==
    /\ role \in guildRoles
    /\ guildRoles' = guildRoles \ {role}
    /\ UNCHANGED <<reactions, react_role, guildEmojis, tasks>>

\* the events the guild delivers: a direct message, a bot's message, and
\* members' messages
Events ==
    {[guild |-> FALSE, bot |-> FALSE, roles |-> {}],
     [guild |-> TRUE, bot |-> TRUE, roles |-> {}]}
    \cup {[guild |-> TRUE, bot |-> FALSE, roles |-> r] : r \in AuthorRoles}

Next ==
    \/ \E t \in Tasks, ev \in Events, content \in Texts :
          /\ ev.roles \subseteq guildRoles
          /\ on_message(t, ev.guild, ev.bot, content, ev.roles)
    \/ \E t \in Tasks : CogDisabledInGuild(t)
    \/ \E t \in Tasks : GetReactRole(t)
    \/ \E t \in Tasks : GetReactions(t)
    \/ \E t \in Tasks : AddReaction(t)
    \/ \E t \in Tasks : CleanLoad(t)
    \/ \E t \in Tasks : CleanSave(t)
    \/ \E t \in Tasks, word \in Words, emoji \in EmojiArgs :
          addreact(t, word, emoji)
    \/ \E t \in Tasks : CreateProbe(t)
    \/ \E t \in Tasks : CreateLoad(t)
    \/ \E t \in Tasks : CreateSave(t)
    \/ \E t \in Tasks, word \in Words, emoji \in EmojiArgs :
          delreact(t, word, emoji)
    \/ \E t \in Tasks : RemoveProbe(t)
    \/ \E t \in Tasks : RemoveLoad(t)
    \/ \E t \in Tasks : RemoveSave(t)
    \/ \E role \in Roles : setreactrole(role)
    \/ clearreactrole
    \/ \E id \in EmojiIds : EmojiDeleted(id)
    \/ \E role \in Roles : RoleDeleted(role)

Spec == Init /\ [][Next]_vars

(***************************************************************************)
(* Properties                                                              *)
(***************************************************************************)
Listeners == {t \in Tasks : tasks[t].kind = "on_message"}

\* the (entry, word) positions of a registry whose word matches a text
MatchingPairs(reacts, content) ==
    {p \in (1..Len(reacts)) \X (1..3) :
        /\ p[2] <= Len(reacts[p[1]].words)
        /\ get_pattern(reacts[p[1]].words[p[2]], content)}

\* entry i of the registry has a word that matches the text
EntryMatches(reacts, content, i) ==
    \E j \in 1..Len(reacts[i].words) : get_pattern(reacts[i].words[j], content)

\* token is the key the resolved emoji e was looked up from
Denotes(token, e) ==
    IF e.kind = "Emoji" THEN token.kind = "custom" /\ token.id = e.id
    ELSE token = e

\* C1: a listener makes at most one add_reaction call on its message, at most
\* one reaction is added, and after the call, or once it has found the event
\* non-actionable, the listener has ended
C1_AtMostOneReaction ==
    \A t \in Listeners :
        /\ tasks[t].calls <= 1
        /\ Len(tasks[t].added) <= tasks[t].calls
        /\ tasks[t].calls = 1 => tasks[t].pc = "done"
        /\ tasks[t].result # None => tasks[t].pc = "done"

\* a message that matches several pairs of the registry got one reaction
C1_Witness ==
    \E t \in Listeners :
        /\ tasks[t].result = "reacted"
        /\ Len(tasks[t].added) = 1
        /\ Cardinality(MatchingPairs(reactions, tasks[t].content)) >= 2

\* C2: the step that loads the registry chooses the emoji of the first entry,
\* in the registry's order, that has a matching word, and chooses nothing (the
\* listener ends) when no pair matches
C2_FirstMatchChosen ==
    [][\A t \in Tasks :
          At(t, "on_message", "reactions") /\ tasks'[t].pc # "reactions" =>
              LET content == tasks[t].content
                  hits == {i \in 1..Len(reactions) :
                              EntryMatches(reactions, content, i)}
              IN  IF hits = {}
                  THEN /\ tasks'[t].pc = "done"
                       /\ tasks'[t].result \in {"empty", "no_match"}
                       /\ tasks'[t].resolved = 0
                  ELSE /\ tasks'[t].pc \in {"add_reaction", "clean_dead_emojis"}
                       /\ \E i \in hits :
                             /\ \A k \in hits : i <= k
                             /\ IF tasks'[t].pc = "add_reaction"
                                THEN Denotes(reactions[i].emoji, tasks'[t].emoji)
                                ELSE tasks'[t].emoji = reactions[i].emoji
    ]_vars

\* two entries match the text and the emoji of the earlier one is chosen
C2_Witness ==
    \E t \in Listeners :
        /\ tasks[t].pc = "add_reaction"
        /\ \E i, k \in 1..Len(tasks[t].reacts) :
              /\ i < k
              /\ EntryMatches(tasks[t].reacts, tasks[t].content, i)
              /\ EntryMatches(tasks[t].reacts, tasks[t].content, k)
              /\ Denotes(tasks[t].reacts[i].emoji, tasks[t].emoji)

\* C3: when react_role is a role R as the gate reads it, an author who does
\* not hold R (also because R no longer exists) ends the listener there: no
\* reaction, no write of the registry, no exception; an author who holds R
\* passes the gate and goes on to the match
C3_RoleGate ==
    [][\A t \in Tasks :
          /\ At(t, "on_message", "react_role")
          /\ tasks'[t].pc # "react_role"
          /\ react_role # None
          => IF react_role \in tasks[t].roles /\ react_role \in guildRoles
             THEN /\ tasks'[t].pc = "reactions"
                  /\ tasks'[t].react_role_id = react_role
             ELSE /\ tasks'[t].pc = "done"
                  /\ tasks'[t].result = "gated"
                  /\ tasks'[t].calls = 0
                  /\ tasks'[t].loads = 0
                  /\ tasks'[t].saves = 0
                  /\ tasks'[t].raised = None
                  /\ reactions' = reactions
    ]_vars

\* with the restriction set, a message whose text matches a trigger was
\* gated and got no reaction
C3_Witness ==
    \E t \in Listeners :
        /\ tasks[t].result = "gated"
        /\ tasks[t].calls = 0
        /\ react_role \in guildRoles
        /\ MatchingPairs(reactions, tasks[t].content) # {}

\* C4: a message whose text holds an http:// or https:// URL never gets past
\* the URL filter: no add_reaction call, no fix_custom_emoji call, no read and
\* no write of the registry
C4_UrlSuppressed ==
    \A t \in Listeners :
        URL_REGEX(tasks[t].content) =>
            /\ tasks[t].pc \in {"cog_disabled_in_guild", "done"}
            /\ tasks[t].calls = 0
            /\ tasks[t].added = <<>>
            /\ tasks[t].resolved = 0
            /\ tasks[t].loads = 0
            /\ tasks[t].saves = 0

\* a message with a URL and a matching trigger word was dropped by the filter
C4_Witness ==
    \E t \in Listeners :
        /\ tasks[t].result = "url"
        /\ URL_REGEX(tasks[t].content)
        /\ MatchingPairs(reactions, tasks[t].content) # {}

\* the entries whose token resolves: literal tokens and the custom tokens
\* whose id is an emoji the bot can see
Resolvable(reacts, visible) ==
    {i \in 1..Len(reacts) :
        reacts[i].emoji.kind = "unicode" \/ reacts[i].emoji.id \in visible}

\* kept is reacts restricted to the entries at the positions in keep, with
\* their order and their word lists
IsRestriction(kept, reacts, keep) ==
    /\ Len(kept) = Cardinality(keep)
    /\ \A i \in keep :
          kept[Cardinality({k \in keep : k <= i})] = reacts[i]

\* C5: when the first matching pair's emoji is a custom token that does not
\* resolve, the listener runs clean_dead_emojis; the sweep keeps exactly the
\* resolvable entries of the registry it loads, unchanged and in order, saves
\* that, and the message gets no reaction and no reply
C5_DeadEmojiSweep ==
    [][\A t \in Tasks :
          /\ (/\ At(t, "on_message", "reactions")
              /\ tasks'[t].pc # "reactions"
              /\ \E i \in 1..Len(reactions) :
                    /\ EntryMatches(reactions, tasks[t].content, i)
                    /\ \A k \in 1..(i - 1) :
                          ~EntryMatches(reactions, tasks[t].content, k)
                    /\ i \notin Resolvable(reactions, guildEmojis))
             => tasks'[t].pc = "clean_dead_emojis"
          /\ (At(t, "on_message", "clean_dead_emojis") /\ tasks'[t] # tasks[t])
             => /\ tasks'[t].pc = "clean_save"
                /\ IsRestriction(tasks'[t].reacts, reactions,
                                 Resolvable(reactions, guildEmojis))
          /\ (At(t, "on_message", "clean_save") /\ tasks'[t] # tasks[t])
             => /\ reactions' = tasks[t].reacts
                /\ tasks'[t].pc = "done"
                /\ tasks'[t].result = "cleaned"
                /\ tasks'[t].calls = 0
                /\ tasks'[t].added = <<>>
                /\ tasks'[t].sent = None
    ]_vars

\* a sweep removed two dead custom entries at once and kept the literal one
C5_Witness ==
    \E t \in Listeners :
        /\ tasks[t].result = "cleaned"
        /\ tasks[t].calls = 0
        /\ guildEmojis = {}
        /\ reactions = <<Entry(Unicode("U1F355"), <<pizza, party>>)>>

Commands(kind) == {t \in Tasks : tasks[t].kind = kind}

\* the number of times a pair is listed
Listed(reacts, pair) ==
    Cardinality({k \in 1..Len(listreact(reacts)) : listreact(reacts)[k] = pair})

\* no pair is listed twice
NoDuplicatePairs(reacts) ==
    \A a, b \in 1..Len(listreact(reacts)) :
        listreact(reacts)[a] = listreact(reacts)[b] => a = b

\* C6: the stored registry never lists an (emoji, word) pair twice; an
\* addreact that finds its pair in the registry it loads replies "already
\* exists" and saves nothing, otherwise it saves a registry that lists the
\* pair once
C6_PairsUnique ==
    /\ []NoDuplicatePairs(reactions)
    /\ [][\A t \in Tasks :
             /\ (At(t, "addreact", "reactions") /\ tasks'[t] # tasks[t])
                => LET pair == <<tasks[t].emoji, Lower(tasks[t].word)>>
                   IN  IF Listed(reactions, pair) > 0
                       THEN /\ tasks'[t].pc = "done"
                            /\ tasks'[t].sent = AlreadyExists
                            /\ tasks'[t].saves = 0
                            /\ reactions' = reactions
                       ELSE /\ tasks'[t].pc = "save"
                            /\ Listed(tasks'[t].reacts, pair) = 1
                            /\ NoDuplicatePairs(tasks'[t].reacts)
             /\ (At(t, "addreact", "save") /\ tasks'[t] # tasks[t])
                => /\ reactions' = tasks[t].reacts
                   /\ tasks'[t].sent = Added
       ]_vars

\* the same pair was added by one addreact and found by a second one: it is
\* listed once
C6_Witness ==
    \E t, u \in Commands("addreact") :
        /\ tasks[t].result = "added"
        /\ tasks[u].result = "exists"
        /\ Len(listreact(reactions)) = 1

\* C7: no key of the stored registry, and of a registry about to be saved,
\* maps to an empty word list
C7_NoEmptyWordList ==
    /\ \A i \in 1..Len(reactions) : reactions[i].words # <<>>
    /\ \A t \in Tasks :
          tasks[t].pc \in {"save", "clean_save"} =>
              \A i \in 1..Len(tasks[t].reacts) : tasks[t].reacts[i].words # <<>>

\* the only word of an emoji was removed and its key is gone
C7_Witness ==
    \E t \in Commands("delreact") :
        /\ tasks[t].result = "removed"
        /\ Len(reactions) = 2
        /\ HasKey(reactions, Custom("pz", 1))
        /\ ~HasKey(reactions, Custom("pa", 2))
        /\ 2 \in guildEmojis

\* C8 as claimed: a delreact of a pair that is stored ends with the pair
\* removed and "Removed" reported, whatever the state of its emoji
C8_StoredPairRemoved ==
    [][\A t \in Tasks :
          /\ tasks[t].kind = "delreact"
          /\ tasks[t].pc # "done"
          /\ tasks'[t].pc = "done"
          /\ Listed(reactions, <<tasks[t].arg, Lower(tasks[t].word)>>) > 0
          => tasks'[t].result = "removed"
    ]_vars

\* C8: delreact has three outcomes.  When the emoji argument does not resolve
\* or the add_reaction on the command message raises, it replies "not an emoji
\* I recognize" and the registry is not read or written.  Otherwise the
\* registry it loads decides: with the pair stored it saves the registry less
\* that word and replies "Removed", without it it replies "does not exist" and
\* saves nothing.
C8_RemoveOutcomes ==
    [][\A t \in Tasks :
          /\ (At(t, "delreact", "add_reaction") /\ tasks'[t] # tasks[t])
             => /\ tasks[t].emoji = NoEmoji => tasks'[t].pc = "done"
                /\ tasks'[t].pc = "done" =>
                      /\ tasks'[t].sent = Unrecognized
                      /\ tasks'[t].loads = 0
                      /\ tasks'[t].saves = 0
                      /\ reactions' = reactions
                /\ tasks'[t].pc # "done" =>
                      /\ tasks'[t].pc = "reactions"
                      /\ tasks'[t].added # <<>>
          /\ (At(t, "delreact", "reactions") /\ tasks'[t] # tasks[t])
             => LET pair == <<tasks[t].emoji, Lower(tasks[t].word)>>
                IN  IF Listed(reactions, pair) > 0
                    THEN /\ tasks'[t].pc = "save"
                         /\ listreact(tasks'[t].reacts) =
                               SelectSeq(listreact(reactions),
                                         LAMBDA p : p # pair)
                    ELSE /\ tasks'[t].pc = "done"
                         /\ tasks'[t].sent = DoesNotExist
                         /\ tasks'[t].saves = 0
                         /\ reactions' = reactions
          /\ (At(t, "delreact", "save") /\ tasks'[t] # tasks[t])
             => /\ reactions' = tasks[t].reacts
                /\ tasks'[t].sent = Removed
    ]_vars

\* a delreact of a custom emoji that no longer resolves was refused while the
\* registry still holds that emoji's entry
C8_Witness ==
    \E t \in Commands("delreact") :
        /\ tasks[t].result = "unrecognized"
        /\ tasks[t].caught = "TypeError"
        /\ guildEmojis = {2}
        /\ HasKey(reactions, Custom("pz", 1))

C10_ForbiddenIsSilent ==
    /\ [](\A t \in Listeners :
             tasks[t].caught = "Forbidden" =>
                 /\ tasks[t].pc = "done"
                 /\ tasks[t].calls = 1
                 /\ tasks[t].added = <<>>
                 /\ tasks[t].sent = None
                 /\ tasks[t].raised = None
                 /\ tasks[t].saves = 0)
    /\ [][\A t \in Tasks :
             (At(t, "on_message", "add_reaction") /\ tasks'[t] # tasks[t])
             => /\ reactions' = reactions
                /\ react_role' = react_role
       ]_vars

\* a Forbidden reaction on a message that matches two entries: the second
\* emoji was not tried
C10_Witness ==
    \E t \in Listeners :
        /\ tasks[t].result = "forbidden"
        /\ tasks[t].calls = 1
        /\ Cardinality(MatchingPairs(reactions, tasks[t].content)) >= 2

(***************************************************************************)
(* The listener alone, on registries of one literal emoji and one word,    *)
(* with words that start or end with a character that is not a word        *)
(* character.                                                              *)
(***************************************************************************)
\* words a moderator has stored (addreact lower-cases them)
MatchWords == {pizza, <<"c", "+", "+">>}

\* message contents
MatchTexts ==
    {<<"p", "i", "z", "z", "a">>,
     <<"p", "i", "z", "z", "a", "z", "z">>,
     <<"P", "I", "Z", "Z", "A", "!">>,
     <<"c", "+", "+">>,
     <<"c", "+", "+", " ", "x">>,
     <<"c", "+", "+", "x">>,
     <<"x", "c", "+", "+">>}

InitMatch ==
    /\ reactions \in {<<Entry(Unicode("U1F355"), <<w>>)>> : w \in MatchWords}
    /\ react_role = None
    /\ guildEmojis = EmojiIds
    /\ guildRoles = Roles
    /\ tasks = [t \in Tasks |-> Idle]

NextMatch ==
    \/ \E t \in Tasks, content \in MatchTexts :
          on_message(t, TRUE, FALSE, content, {})
    \/ \E t \in Tasks : CogDisabledInGuild(t)
    \/ \E t \in Tasks : GetReactRole(t)
    \/ \E t \in Tasks : GetReactions(t)
    \/ \E t \in Tasks : AddReaction(t)

SpecMatch == InitMatch /\ [][NextMatch]_vars

\* the text holds the word, letter case aside, with a character that is not a
\* word character, or an end of the text, on each side
WholeWordOccurs(word, text) ==
    \E i \in 0..Len(text) :
        /\ LiteralAt(word, text, i)
        /\ i = 0 \/ text[i] \notin WordChars
        /\ i + Len(word) = Len(text) \/ text[i + Len(word) + 1] \notin WordChars

\* C11: the listener finds a match exactly when a stored word occurs in the
\* text as a whole word: delimited on both sides by a character that is not a
\* word character or by an end of the text
C11_WholeWordMatch ==
    [][\A t \in Tasks :
          (At(t, "on_message", "reactions") /\ tasks'[t] # tasks[t])
          => ((tasks'[t].pc \in {"add_reaction", "clean_dead_emojis"})
              <=> \E i \in 1..Len(reactions) :
                     \E j \in 1..Len(reactions[i].words) :
                        WholeWordOccurs(reactions[i].words[j], tasks[t].content))
    ]_vars

\* the number of (emoji, word) pairs a registry holds
NumPairs(reacts) ==
    Cardinality({p \in (1..Len(reacts)) \X (1..Cardinality(Words) + 2) :
                    p[2] <= Len(reacts[p[1]].words)})

\* task t is about to write the reactions key
AtSave(t) ==
    \/ At(t, "addreact", "save")
    \/ At(t, "delreact", "save")
    \/ At(t, "on_message", "clean_save")

\* task t is about to read the reactions key in order to change it
AtLoad(t) ==
    \/ At(t, "addreact", "reactions")
    \/ At(t, "delreact", "reactions")
    \/ At(t, "on_message", "clean_dead_emojis")

\* C12: add, remove and cleanup are not excluded from one another: the load
\* of each reads the whole map into the task and leaves the store alone, its
\* save writes the task's whole copy over the store whatever the store holds
\* by then, and neither step touches the copy another task holds; so the
\* store after a save is exactly what the saving task wrote and an update
\* stored between that task's load and its save is lost
C12_LastWriterWins ==
    [][\A t \in Tasks :
          /\ AtLoad(t) /\ tasks'[t] # tasks[t] =>
                /\ reactions' = reactions
                /\ tasks'[t].loads = tasks[t].loads + 1
                /\ \A u \in Tasks \ {t} : tasks'[u] = tasks[u]
          /\ AtSave(t) /\ tasks'[t] # tasks[t] =>
                /\ reactions' = tasks[t].reacts
                /\ tasks'[t].saves = tasks[t].saves + 1
                /\ tasks'[t].pc = "done"
                /\ \A u \in Tasks \ {t} : tasks'[u] = tasks[u]
    ]_vars

\* an add and a remove have both reported success and the registry holds one
\* pair fewer than was stored: the remove loaded before the add saved and
\* saved after it, and the pair reported as added is gone
C12_Witness ==
    /\ \E a \in Commands("addreact") :
          tasks[a].result = "added" /\ tasks[a].sent = Added
    /\ \E d \in Commands("delreact") :
          tasks[d].result = "removed" /\ tasks[d].sent = Removed
    /\ \E stored \in StoredRegistries :
          stored # <<>> /\ NumPairs(reactions) = NumPairs(stored) - 1

\* C13: a listener whose add_reaction call failed, whatever the failure, has
\* ended with no exception leaving it, no reply sent and no write of the
\* registry
C13_FailuresSwallowed ==
    \A t \in Listeners :
        tasks[t].calls = 1 /\ tasks[t].added = <<>> =>
            /\ tasks[t].pc = "done"
            /\ tasks[t].raised = None
            /\ tasks[t].sent = None
            /\ tasks[t].saves = 0

\* the results of a listener that ended at a filter or at the role gate
Filtered == {"no_guild", "bot", "disabled", "url", "gated"}

\* C14: the steps of a listener come in the order filters, role gate, load,
\* match, resolve, apply or cleanup, and none is taken after an earlier one
\* ended the event: a listener that has not passed the filters and the gate
\* has neither loaded, resolved, called add_reaction nor saved; one that
\* loaded has a text without a link and passed the gate; one whose text
\* matched nothing has resolved no emoji; add_reaction is called only with an
\* emoji that was resolved after the one load; the cleanup is entered only
\* after a load and a resolution and never after a call
C14_StepOrder ==
    \A t \in Listeners :
        LET m == tasks[t]
        IN  /\ m.pc \in {"cog_disabled_in_guild", "react_role", "reactions"}
                  \/ m.result \in Filtered =>
                  m.loads = 0 /\ m.resolved = 0 /\ m.calls = 0 /\ m.saves = 0
            /\ m.pc \in {"react_role", "reactions"} \/ m.loads > 0 =>
                  ~URL_REGEX(m.content)
            /\ m.pc \in {"reactions", "add_reaction", "clean_dead_emojis",
                          "clean_save"} =>
                  m.react_role_id = None \/ m.react_role_id \in m.roles
            /\ m.result \in {"empty", "no_match"} =>
                  m.loads = 1 /\ m.resolved = 0 /\ m.calls = 0 /\ m.saves = 0
            /\ m.pc = "add_reaction" =>
                  /\ m.loads = 1 /\ m.resolved = 1 /\ m.calls = 0
                  /\ m.emoji # NoEmoji
            /\ m.calls > 0 =>
                  m.loads = 1 /\ m.resolved = 1 /\ m.saves = 0
            /\ m.pc = "clean_dead_emojis" =>
                  m.loads = 1 /\ m.resolved = 1 /\ m.calls = 0 /\ m.saves = 0
            /\ m.pc = "clean_save" \/ m.saves > 0 =>
                  m.loads = 2 /\ m.resolved >= 1 /\ m.calls = 0

\* one listener went through every step and reacted, another ended at the
\* role gate with nothing loaded
C14_Witness ==
    /\ \E t \in Listeners :
          /\ tasks[t].result = "reacted"
          /\ tasks[t].loads = 1 /\ tasks[t].resolved = 1 /\ tasks[t].calls = 1
    /\ \E t \in Listeners :
          tasks[t].result = "gated" /\ tasks[t].loads = 0

\* C15: a listener reacts only with the emoji of the first entry, in the
\* order of the map it loaded, that has a matching word; when that emoji does
\* not resolve it goes to the cleanup with that emoji, whatever the later
\* entries are, and a listener in or after the cleanup has made no
\* add_reaction call and added no reaction
C15_NoFallback ==
    \A t \in Listeners :
        LET m == tasks[t]
            first(reacts) ==
                {i \in 1..Len(reacts) :
                    /\ EntryMatches(reacts, m.content, i)
                    /\ \A k \in 1..(i - 1) :
                          ~EntryMatches(reacts, m.content, k)}
        IN  /\ m.pc = "add_reaction" =>
                  \E i \in first(m.reacts) :
                      Denotes(m.reacts[i].emoji, m.emoji)
            /\ m.pc = "clean_dead_emojis" =>
                  \E i \in first(m.reacts) : m.reacts[i].emoji = m.emoji
            /\ m.pc = "clean_save" =>
                  \E i \in first(m.caller_reacts) :
                      m.caller_reacts[i].emoji = m.emoji
            /\ m.pc \in {"clean_dead_emojis", "clean_save"}
                  \/ m.result = "cleaned" =>
                  m.calls = 0 /\ m.added = <<>>

\* a listener went to the cleanup and ended without a reaction, and the
\* registry it left holds an entry that matches its message and whose emoji
\* resolves
C15_Witness ==
    \E t \in Listeners :
        /\ tasks[t].result = "cleaned"
        /\ tasks[t].added = <<>>
        /\ \E i \in 1..Len(reactions) :
              /\ EntryMatches(reactions, tasks[t].content, i)
              /\ ~Falsy(fix_custom_emoji(reactions[i].emoji, guildEmojis))

\* no letter of the word is an upper-case one
IsLower(word) == \A k \in 1..Len(word) : word[k] \notin DOMAIN ToLower

\* the two words differ at most in the case of their letters
CaseEq(v, w) ==
    /\ Len(v) = Len(w)
    /\ \A k \in 1..Len(v) :
          \/ v[k] = w[k]
          \/ v[k] \in DOMAIN ToLower /\ ToLower[v[k]] = w[k]
          \/ w[k] \in DOMAIN ToLower /\ ToLower[w[k]] = v[k]

\* the positions of the words stored under the emoji that are the word but
\* for case
CaseEqAt(reacts, emoji, word) ==
    {p \in (1..Len(reacts)) \X (1..Cardinality(Words) + 2) :
        /\ reacts[p[1]].emoji = emoji
        /\ p[2] <= Len(reacts[p[1]].words)
        /\ CaseEq(reacts[p[1]].words[p[2]], word)}

\* C16: every word of the stored registry is lower-case, and the membership
\* tests of add and remove ignore case: an add that goes on to save holds a
\* copy with the word, lower-cased, exactly once under the emoji; an add that
\* reported already-exists wrote nothing; a remove that goes on to save holds
\* a copy without the word in any case; and a stored word matches a message
\* whatever the case of the text
C16_LowerCaseWords ==
    /\ \A i \in 1..Len(reactions) :
          \A j \in 1..Len(reactions[i].words) :
              /\ IsLower(reactions[i].words[j])
              /\ \A t \in Listeners :
                    get_pattern(reactions[i].words[j], tasks[t].content)
                       <=> get_pattern(reactions[i].words[j],
                                       Lower(tasks[t].content))
    /\ \A t \in Commands("addreact") :
          /\ tasks[t].pc = "save" =>
                /\ Cardinality(CaseEqAt(tasks[t].reacts, tasks[t].emoji,
                                        tasks[t].word)) = 1
                /\ \A p \in CaseEqAt(tasks[t].reacts, tasks[t].emoji,
                                      tasks[t].word) :
                      IsLower(tasks[t].reacts[p[1]].words[p[2]])
          /\ tasks[t].result = "exists" =>
                tasks[t].saves = 0 /\ tasks[t].sent = AlreadyExists
    /\ \A t \in Commands("delreact") :
          tasks[t].pc = "save" =>
              CaseEqAt(tasks[t].reacts, tasks[t].emoji, tasks[t].word) = {}

\* "Pizza" was added to an empty registry and is stored as "pizza"; a second
\* add found it there, and a message in capitals matches it
C16_Witness ==
    /\ reactions = <<Entry(Unicode("U1F355"), <<pizza>>)>>
    /\ \E t \in Commands("addreact") : tasks[t].result = "added"
    /\ \E t \in Commands("addreact") : tasks[t].result = "exists"
    /\ get_pattern(reactions[1].words[1], <<"P", "I", "Z", "Z", "A", "!">>)

\* C17: a listener writes the registry only in the cleanup it enters for a
\* dead emoji: a listener that was filtered, gated, found no match, reacted,
\* was Forbidden, or is still on its way to add_reaction has written nothing,
\* and every step that changes the stored map is the save of a cleanup, of an
\* add or of a remove
C17_ListenerFrame ==
    /\ [](\A t \in Listeners :
              tasks[t].pc \notin {"clean_save", "done"}
                  \/ tasks[t].result \in Filtered \cup
                        {"empty", "no_match", "reacted", "forbidden"} =>
                  tasks[t].saves = 0)
    /\ [][reactions' # reactions =>
              \E t \in Tasks :
                  /\ AtSave(t)
                  /\ tasks'[t].pc = "done"
                  /\ tasks'[t].result \in {"cleaned", "added", "removed"}
                  /\ tasks'[t].saves = tasks[t].saves + 1
         ]_vars

\* two listeners of a non-empty registry have ended, one reacted and one was
\* Forbidden, and the registry is one of the stored ones, as it was
C17_Witness ==
    /\ \E t \in Listeners :
          tasks[t].result = "reacted" /\ tasks[t].saves = 0
    /\ \E t \in Listeners :
          tasks[t].result = "forbidden" /\ tasks[t].saves = 0
    /\ reactions # <<>>
    /\ reactions \in StoredRegistries

\* C18: reactions and react_role are stored apart: a step that changes
\* react_role is setreactrole or clearreactrole, which leaves the registry
\* and every task alone, also a task that holds a loaded copy it is about to
\* save; and a step that changes the registry, the save of an add, a remove
\* or a cleanup, leaves react_role as it is at that moment
C18_IndependentFields ==
    [][/\ react_role' # react_role =>
             reactions' = reactions /\ tasks' = tasks
       /\ (\E t \in Tasks : AtSave(t) /\ tasks'[t] # tasks[t]) =>
             react_role' = react_role
       /\ reactions' # reactions => react_role' = react_role
    ]_vars

\* the restriction is set and has gated a listener, an add has saved, and
\* the registry holds what the add wrote: neither write undid the other
C18_Witness ==
    /\ react_role = "R1"
    /\ \E t \in Commands("addreact") :
          tasks[t].result = "added" /\ tasks[t].saves = 1
    /\ \E t \in Listeners :
          tasks[t].result = "gated"
    /\ reactions # <<>>
    /\ reactions \notin StoredRegistries

\* C19: the cleanup sweeps the map it loads itself, not the map the listener
\* loaded for the match: its load step makes the copy that keeps exactly the
\* entries of the registry as stored at that moment whose emoji resolves,
\* whatever the listener holds from its earlier load, and its save stores
\* that copy; so a pair with a live emoji stored between the two loads is in
\* the registry after the cleanup has saved
C19_CleanupLoadsAfresh ==
    [][\A t \in Tasks :
          /\ At(t, "on_message", "clean_dead_emojis") /\ tasks'[t] # tasks[t] =>
                /\ tasks'[t].pc = "clean_save"
                /\ IsRestriction(tasks'[t].reacts, reactions,
                                 Resolvable(reactions, guildEmojis))
                /\ tasks'[t].caller_reacts = tasks[t].reacts
                /\ tasks'[t].loads = tasks[t].loads + 1
          /\ At(t, "on_message", "clean_save") /\ tasks'[t] # tasks[t] =>
                reactions' = tasks[t].reacts
    ]_vars

\* the cleanup is about to save a copy that holds a pair, with a live emoji,
\* which the map the listener matched against did not hold
C19_Witness ==
    \E t \in Listeners :
        /\ tasks[t].pc = "clean_save"
        /\ \E i \in 1..Len(tasks[t].reacts) :
              \E j \in 1..Len(tasks[t].reacts[i].words) :
                  LET pair == <<tasks[t].reacts[i].emoji,
                                tasks[t].reacts[i].words[j]>>
                  IN  /\ Listed(tasks[t].reacts, pair) = 1
                      /\ Listed(tasks[t].caller_reacts, pair) = 0
                      /\ Listed(reactions, pair) = 1

====
